---- MODULE Spec2Model ----
(***************************************************************************)
(* StepWize task backend (src/main.py): the task document, its mutation    *)
(* handlers (create, patch, delete, complete, subtask toggle, timer) and   *)
(* the mock AI edit / undo / redo history engine, over a document store.   *)
(*                                                                         *)
(* A JSON value that may be null is an option: None is null, Some(v) is v. *)
(* A JSON object is a function from its keys; a key may be absent.         *)
(* In Spec, SpecHistory, SpecMutation, SpecTimer and SpecEdit every        *)
(* handler is one atomic action (requests run one after another); in       *)
(* SpecConcurrent a handler is a read followed later by a write.           *)
(***************************************************************************)
EXTENDS Integers, Sequences, FiniteSets, TLC

VARIABLES db, clock, issued, last, run, calls

vars == <<db, clock, issued, last, run, calls>>

----------------------------------------------------------------------------
(* Bounds of the model *)

\* the wall clock takes the values 0..MaxClock
MaxClock == 1

\* Edit is not taken once aiHistory would grow beyond MaxHistory entries
MaxHistory == 3

----------------------------------------------------------------------------
(* JSON values *)

None == <<>>

Some(v) == <<v>>

\* {**d, **u}: the keys of u override those of d
Merge(d, u) ==
    [k \in DOMAIN d \cup DOMAIN u |-> IF k \in DOMAIN u THEN u[k] ELSE d[k]]

Restrict(d, keys) == [k \in keys \cap DOMAIN d |-> d[k]]

EmptyObject == [k \in {} |-> None]

Min(a, b) == IF a < b THEN a ELSE b

Max(a, b) == IF a > b THEN a ELSE b

\* Python's s[:k] on a list, a negative k counting from the end
PySlice(s, k) ==
    IF k >= 0 THEN SubSeq(s, 1, Min(k, Len(s)))
    ELSE SubSeq(s, 1, Max(Len(s) + k, 0))

\* Python's s[:k] on a string
StrPrefix(s, k) == SubSeq(s, 1, Min(k, Len(s)))

Whitespace == {" ", "\n", "\t"}

RECURSIVE LStrip(_)
LStrip(s) ==
    IF Len(s) > 0 /\ SubSeq(s, 1, 1) \in Whitespace
    THEN LStrip(SubSeq(s, 2, Len(s)))
    ELSE s

RECURSIVE RStrip(_)
RStrip(s) ==
    IF Len(s) > 0 /\ SubSeq(s, Len(s), Len(s)) \in Whitespace
    THEN RStrip(SubSeq(s, 1, Len(s) - 1))
    ELSE s

\* str.strip()
Strip(s) == RStrip(LStrip(s))

UpperLetters == "ABCDEFGHIJKLMNOPQRSTUVWXYZ"

LowerLetters == "abcdefghijklmnopqrstuvwxyz"

LowerChar(c) ==
    IF \E i \in 1..Len(UpperLetters) : SubSeq(UpperLetters, i, i) = c
    THEN LET i == CHOOSE j \in 1..Len(UpperLetters) : SubSeq(UpperLetters, j, j) = c
         IN  SubSeq(LowerLetters, i, i)
    ELSE c

RECURSIVE Lower(_)
\* str.lower()
Lower(s) ==
    IF Len(s) = 0 THEN s
    ELSE LowerChar(SubSeq(s, 1, 1)) \o Lower(SubSeq(s, 2, Len(s)))

\* Python's `sub in s` on strings
Contains(sub, s) ==
    \E i \in 1..(Len(s) - Len(sub) + 1) : SubSeq(s, i, i + Len(sub) - 1) = sub

----------------------------------------------------------------------------
(* Program constants *)

\* TaskCreate / TaskUpdate: estimatedMinutes = Field(..., ge=1, le=1440)
TaskMinutesMax == 1440

\* SubTaskModel: estimatedMinutes = Field(5, ge=1, le=480)
SubtaskMinutesMax == 480

\* SubTaskModel: the default of estimatedMinutes, also the sort key's default
SubtaskMinutesDefault == 5

\* TaskCreate: the default of estimatedMinutes
TaskMinutesDefault == 15

\* ai_edit_task: a description longer than this is cut to this many characters
DescriptionLimit == 120

MoreSpecifics == "\n\nMore specifics: steps, tools, and a clear finish line."

TunedForClarity == "\n\nTuned for clarity."

Sparkles == "sparkles"

----------------------------------------------------------------------------
(* The task document *)

TaskIds == {"t1"}

EditableKeys == {"title", "description", "estimatedMinutes", "emoji", "subtasks"}

TaskUpdateKeys ==
    {"title", "description", "estimatedMinutes", "emoji", "completed",
     "voiceReminder", "subtasks"}

\* the fields TaskCreate declares
TaskCreateKeys ==
    {"userId", "title", "description", "estimatedMinutes", "emoji",
     "voiceReminder", "subtasks"}

ResetTimer ==
    [status |-> "idle", startedAt |-> None, elapsedSeconds |-> 0,
     currentSubtaskIndex |-> None]

\* SubTaskModel's validation of one element of a request's subtasks
ValidSubTask(s) ==
    /\ "title" \in DOMAIN s
    /\ "estimatedMinutes" \in DOMAIN s =>
           (s.estimatedMinutes >= 1 /\ s.estimatedMinutes <= SubtaskMinutesMax)

\* mutant: the defaults override what the request set
DumpSubTask_DefaultsWin(s) ==
    Merge(s, [emoji |-> "check", estimatedMinutes |-> SubtaskMinutesDefault,
              completed |-> FALSE])

\* SubTaskModel.model_dump(): every field, the unset ones at their defaults
DumpSubTask(s) ==
    Merge([emoji |-> "check", estimatedMinutes |-> SubtaskMinutesDefault,
           completed |-> FALSE], s)

\* TaskCreate's validation of a request body: userId and title are required,
\* no declared field accepts null, the ranges hold
ValidTaskCreate(body) ==
    /\ {"userId", "title"} \subseteq DOMAIN body
    /\ \A k \in (DOMAIN body) \cap TaskCreateKeys : body[k] # None
    /\ "estimatedMinutes" \in DOMAIN body /\ body.estimatedMinutes # None =>
           (body.estimatedMinutes[1] >= 1 /\ body.estimatedMinutes[1] <= TaskMinutesMax)
    /\ "subtasks" \in DOMAIN body /\ body.subtasks # None =>
           \A i \in 1..Len(body.subtasks[1]) : ValidSubTask(body.subtasks[1][i])

\* TaskCreate(...).model_dump(): the declared fields, defaults filled in
DumpTaskCreate(body) ==
    LET given == Restrict(body, TaskCreateKeys)
        full == Merge([description |-> Some(""),
                       estimatedMinutes |-> Some(TaskMinutesDefault),
                       emoji |-> Some("brain"), voiceReminder |-> Some(FALSE),
                       subtasks |-> Some(<<>>)], given)
    IN  [full EXCEPT !.userId = @[1],
                     !.subtasks = Some([i \in 1..Len(@[1]) |-> DumpSubTask(@[1][i])])]

\* TaskUpdate's validation: every field is Optional, so null passes; a value
\* of estimatedMinutes or of subtasks is range-checked
ValidTaskUpdate(body) ==
    /\ "estimatedMinutes" \in DOMAIN body /\ body.estimatedMinutes # None =>
           (body.estimatedMinutes[1] >= 1 /\ body.estimatedMinutes[1] <= TaskMinutesMax)
    /\ "subtasks" \in DOMAIN body /\ body.subtasks # None =>
           \A i \in 1..Len(body.subtasks[1]) : ValidSubTask(body.subtasks[1][i])

\* mutant: model_dump(exclude_none=True), the nulls dropped as well
DumpTaskUpdate_ExcludesNone(body) ==
    Restrict(body, {k \in TaskUpdateKeys \cap DOMAIN body : body[k] # None})

\* TaskUpdate(...).model_dump(exclude_unset=True): the declared fields the
\* request set (a null included), other keys of the body dropped; the
\* subtasks dumped the same way, each with the fields the request set
DumpTaskUpdate(body) == Restrict(body, TaskUpdateKeys)

\* create_task: the document that is inserted
NewTask(body, now) ==
    Merge(DumpTaskCreate(body),
          [completed |-> Some(FALSE), timerSession |-> ResetTimer,
           aiHistory |-> <<>>, aiCursor |-> -1,
           created_at |-> now, updated_at |-> now])

----------------------------------------------------------------------------
(* The handlers' computations *)

\* mutant: the flag is set instead of negated
ToggledSubtasks_SetsTrue(subs, index) ==
    [subs EXCEPT ![index + 1] = Merge(@, [completed |-> TRUE])]

\* toggle_subtask: subs[index]["completed"] = not subs[index].get("completed", False)
ToggledSubtasks(subs, index) ==
    [subs EXCEPT ![index + 1] =
        Merge(@, [completed |->
                     ~(IF "completed" \in DOMAIN @ THEN @.completed ELSE FALSE)])]

\* mutant: the snapshot forgets the subtasks
Snapshot_WithoutSubtasks(task) == Restrict(task, EditableKeys \ {"subtasks"})

\* ai_edit_task: the snapshot of the editable fields the document holds
Snapshot(task) == Restrict(task, EditableKeys)

\* mutant: the entries beyond the cursor are kept
NewHistory_KeepsFuture(task) == task.aiHistory \o <<Snapshot(task)>>

\* mutant: the slice stops one entry early, history[: cursor]
NewHistory_DropsCurrent(task) ==
    PySlice(task.aiHistory, Max(task.aiCursor, 0)) \o <<Snapshot(task)>>

\* ai_edit_task: history[: cursor + 1] + [snapshot]
NewHistory(task) ==
    PySlice(task.aiHistory, task.aiCursor + 1) \o <<Snapshot(task)>>

\* ai_edit_task: the key sorted() orders the subtasks by
SortKey(s) ==
    IF "estimatedMinutes" \in DOMAIN s THEN s.estimatedMinutes
    ELSE SubtaskMinutesDefault

RECURSIVE InsertByKey_BeforeEqual(_, _)
\* mutant: x placed in front of the elements with an equal key
InsertByKey_BeforeEqual(sorted, x) ==
    IF Len(sorted) = 0 THEN <<x>>
    ELSE IF SortKey(sorted[Len(sorted)]) < SortKey(x) THEN Append(sorted, x)
    ELSE Append(InsertByKey_BeforeEqual(SubSeq(sorted, 1, Len(sorted) - 1), x),
                sorted[Len(sorted)])

RECURSIVE InsertByKey(_, _)
\* x placed behind every element whose key is not larger (a stable insertion)
InsertByKey(sorted, x) ==
    IF Len(sorted) = 0 THEN <<x>>
    ELSE IF SortKey(sorted[Len(sorted)]) <= SortKey(x) THEN Append(sorted, x)
    ELSE Append(InsertByKey(SubSeq(sorted, 1, Len(sorted) - 1), x),
                sorted[Len(sorted)])

RECURSIVE SortedSubtasks(_)
\* sorted(subs, key=...): ascending and stable
SortedSubtasks(subs) ==
    IF Len(subs) = 0 THEN <<>>
    ELSE InsertByKey(SortedSubtasks(SubSeq(subs, 1, Len(subs) - 1)), subs[Len(subs)])

\* the prompts the model sends to /ai/edit
AllPrompts ==
    {"Make it SIMPLER", "please prioritize, with Emoji", "polish",
     "shorter, with more details", "Expand", "add an emoji"}

\* ai_edit_task: prompt = payload.prompt.lower() and the four `in` tests,
\* tabulated once per prompt
Rules ==
    [p \in AllPrompts |->
        LET prompt == Lower(p)
        IN  [shorter    |-> Contains("simpler", prompt) \/ Contains("shorter", prompt),
             more       |-> Contains("more details", prompt) \/ Contains("expand", prompt),
             prioritize |-> Contains("prioritize", prompt),
             emoji      |-> Contains("emoji", prompt)]]

WantsShorter(prompt) == Rules[prompt].shorter

WantsMore(prompt) == Rules[prompt].more

WantsPrioritize(prompt) == Rules[prompt].prioritize

WantsEmoji(prompt) == Rules[prompt].emoji

MatchesNone(prompt) ==
    ~(WantsShorter(prompt) \/ WantsMore(prompt) \/ WantsPrioritize(prompt)
        \/ WantsEmoji(prompt))

\* ai_edit_task raises a TypeError (an unhandled exception, no write) when a
\* rule reads a description or a subtask list that is stored as null
EditRaises(task, prompt) ==
    \/ /\ WantsShorter(prompt) \/ WantsMore(prompt) \/ MatchesNone(prompt)
       /\ task.description = None
    \/ WantsPrioritize(prompt) /\ task.subtasks = None

\* the description the 'simpler' / 'shorter' rule writes
Shortened(d) ==
    IF Len(d) > DescriptionLimit THEN StrPrefix(d, DescriptionLimit) \o "..." ELSE d

\* ai_edit_task: the field updates derived from the prompt, rule after rule
FieldUpdates(task, prompt) ==
    LET d  == task.description[1]
        u1 == IF WantsShorter(prompt)
              THEN [description |-> Some(Shortened(d))] ELSE EmptyObject
        u2 == IF WantsMore(prompt)
              THEN Merge(u1, [description |-> Some(Strip(d \o MoreSpecifics))])
              ELSE u1
        u3 == IF WantsPrioritize(prompt)
              THEN Merge(u2, [subtasks |-> Some(SortedSubtasks(task.subtasks[1]))])
              ELSE u2
        u4 == IF WantsEmoji(prompt)
              THEN Merge(u3, [emoji |-> Some(Sparkles)]) ELSE u3
    IN  IF DOMAIN u4 = {}
        THEN [description |-> Some(Strip(d \o TunedForClarity))]
        ELSE u4

\* mutant: the cursor is set to len(new_history)
EditUpdates_CursorIsLength(task, prompt, now) ==
    Merge(FieldUpdates(task, prompt),
          [aiHistory |-> NewHistory(task),
           aiCursor |-> Len(NewHistory(task)),
           updated_at |-> now])

\* ai_edit_task: everything the $set writes
EditUpdates(task, prompt, now) ==
    Merge(FieldUpdates(task, prompt),
          [aiHistory |-> NewHistory(task),
           aiCursor |-> Len(NewHistory(task)) - 1,
           updated_at |-> now])

\* Python's s[i] is defined for -len(s) <= i < len(s)
PyIndexOk(s, i) == i >= -Len(s) /\ i < Len(s)

PyAt(s, i) == IF i >= 0 THEN s[i + 1] ELSE s[Len(s) + i + 1]

\* mutant: the cursor is not moved
UndoUpdates_KeepsCursor(task, now) ==
    Merge(PyAt(task.aiHistory, task.aiCursor),
          [aiCursor |-> task.aiCursor, updated_at |-> now])

\* ai_undo: {**snap, "aiCursor": cursor - 1, "updated_at": now}
UndoUpdates(task, now) ==
    Merge(PyAt(task.aiHistory, task.aiCursor),
          [aiCursor |-> task.aiCursor - 1, updated_at |-> now])

\* mutant: the snapshot is read at the old cursor
RedoUpdates_OldEntry(task, now) ==
    Merge(PyAt(task.aiHistory, Max(task.aiCursor, 0)),
          [aiCursor |-> task.aiCursor + 1, updated_at |-> now])

\* ai_redo: {**snap, "aiCursor": cursor + 1, "updated_at": now}
RedoUpdates(task, now) ==
    Merge(PyAt(task.aiHistory, task.aiCursor + 1),
          [aiCursor |-> task.aiCursor + 1, updated_at |-> now])

\* mutant: the whole timerSession is replaced by a fresh running one
StartUpdates_Restarts(task, subtaskIndex, now) ==
    [timerSession |->
        [status |-> "running", startedAt |-> Some(now), elapsedSeconds |-> 0,
         currentSubtaskIndex |-> subtaskIndex],
     updated_at |-> now]

\* timer_start: the dotted $set on the embedded timerSession
StartUpdates(task, subtaskIndex, now) ==
    [timerSession |->
        Merge(task.timerSession,
              [status |-> "running", startedAt |-> Some(now),
               currentSubtaskIndex |-> subtaskIndex]),
     updated_at |-> now]

\* mutant: the server adds the supplied seconds to the stored ones
PauseUpdates_Accumulates(task, elapsedSeconds, now) ==
    [timerSession |->
        Merge(task.timerSession,
              [status |-> "paused",
               elapsedSeconds |-> task.timerSession.elapsedSeconds + elapsedSeconds]),
     updated_at |-> now]

\* timer_pause: the dotted $set on the embedded timerSession
PauseUpdates(task, elapsedSeconds, now) ==
    [timerSession |->
        Merge(task.timerSession,
              [status |-> "paused", elapsedSeconds |-> elapsedSeconds]),
     updated_at |-> now]

\* mutant: the timer is left paused
StopUpdates_LeavesPaused(now) ==
    [timerSession |-> [ResetTimer EXCEPT !.status = "paused"], updated_at |-> now]

\* timer_stop: the whole timerSession replaced
StopUpdates(now) == [timerSession |-> ResetTimer, updated_at |-> now]

----------------------------------------------------------------------------
(* The document store *)

\* db["task"].find_one({"_id": id}): the document, or None
FindOne(id) == IF id \in DOMAIN db THEN Some(db[id]) ELSE None

\* db["task"].update_one({"_id": id}, {"$set": updates}): no upsert, so a
\* missing document matches nothing and nothing is written
UpdateOne(id, updates) ==
    IF id \in DOMAIN db THEN [db EXCEPT ![id] = Merge(@, updates)] ELSE db

\* db["task"].insert_one(doc) under a fresh id
InsertOne(id, doc) == [k \in DOMAIN db \cup {id} |-> IF k = id THEN doc ELSE db[k]]

\* db["task"].delete_one({"_id": id})
DeleteOne(id) == [k \in DOMAIN db \ {id} |-> db[k]]

\* serialize(find_one(...)) as the handler's return value: a missing
\* document serializes to None, which is answered 200 with a null body
Returned(store, id) == IF id \in DOMAIN store THEN "ok" ELSE "null"

----------------------------------------------------------------------------
(* Bookkeeping of the calls: the last call with its answer and the document *)
(* it found, and the run of like calls it belongs to                        *)

\* the editable fields of a stored task
Fields(task) == [k \in EditableKeys |-> task[k]]

NoCall == [op |-> "none", id |-> "", arg |-> <<>>, result |-> "", pre |-> None]

NoRun == [kind |-> "none", idx |-> 0, bases |-> <<>>, undos |-> 0]

\* the requests being served at the same time, each between its read and
\* its write
Callers == {"a", "b"}

Idle == [op |-> "idle"]

NoCalls == [c \in Callers |-> Idle]

Answer(op, id, arg, result) ==
    last' = [op |-> op, id |-> id, arg |-> arg, result |-> result, pre |-> FindOne(id)]

\* consecutive successful toggles of one index: the subtask lists found by
\* the previous and by this toggle
RunAfterToggle(index, task) ==
    [kind |-> "toggle", idx |-> index, undos |-> 0,
     bases |-> IF run.kind = "toggle" /\ run.idx = index
               THEN <<run.bases[Len(run.bases)], task.subtasks>>
               ELSE <<task.subtasks>>]

\* consecutive successful edits: the editable fields each of them found
RunAfterEdit(task) ==
    [kind |-> "edit", idx |-> 0, undos |-> 0,
     bases |-> IF run.kind = "edit" /\ run.undos = 0
               THEN Append(run.bases, Fields(task))
               ELSE <<Fields(task)>>]

\* the undos that follow a run of edits, as long as they do not outnumber it
RunAfterUndo ==
    IF run.kind = "edit" /\ run.undos < Len(run.bases)
    THEN [run EXCEPT !.undos = @ + 1]
    ELSE NoRun

\* the redos that directly follow a run of edits: the document the first of
\* them found
RunAfterRedo(task) ==
    IF run.kind = "edit" /\ run.undos = 0
    THEN [kind |-> "redo", idx |-> 0, undos |-> 0, bases |-> <<task>>]
    ELSE IF run.kind = "redo" THEN run
    ELSE NoRun

----------------------------------------------------------------------------
(* The handlers *)

\* POST /tasks
Create(bodies) ==
    \E body \in bodies :
        /\ IF ValidTaskCreate(body)
           THEN \E id \in TaskIds \ issued :
                    /\ db' = InsertOne(id, NewTask(body, clock))
                    /\ issued' = issued \cup {id}
                    /\ Answer("create", id, <<body>>, "ok")
           ELSE /\ Answer("create", "", <<body>>, "ValidationError")
                /\ UNCHANGED <<db, issued>>
        /\ run' = NoRun
        /\ UNCHANGED <<clock, calls>>

\* PATCH /tasks/{task_id}
Patch(bodies) ==
    \E id \in TaskIds, body \in bodies :
        /\ IF ~ValidTaskUpdate(body)
           THEN /\ Answer("patch", id, <<body>>, "ValidationError")
                /\ UNCHANGED db
           ELSE LET updates == DumpTaskUpdate(body)
                IN  IF DOMAIN updates = {}
                    THEN /\ Answer("patch", id, <<body>>, Returned(db, id))
                         /\ UNCHANGED db
                    ELSE /\ db' = UpdateOne(id, Merge(updates, [updated_at |-> clock]))
                         /\ Answer("patch", id, <<body>>, Returned(db, id))
        /\ run' = NoRun
        /\ UNCHANGED <<clock, issued, calls>>

\* DELETE /tasks/{task_id}
Delete ==
    \E id \in TaskIds :
        /\ db' = DeleteOne(id)
        /\ Answer("delete", id, <<>>, "ok")
        /\ run' = NoRun
        /\ UNCHANGED <<clock, issued, calls>>

\* POST /tasks/{task_id}/complete
Complete ==
    \E id \in TaskIds, completed \in BOOLEAN :
        /\ db' = UpdateOne(id, [completed |-> Some(completed), updated_at |-> clock])
        /\ Answer("complete", id, <<completed>>, Returned(db, id))
        /\ run' = NoRun
        /\ UNCHANGED <<clock, issued, calls>>

\* POST /tasks/{task_id}/subtasks/{index}/toggle
Toggle(indices) ==
    \E id \in TaskIds, index \in indices :
        /\ IF id \notin DOMAIN db
           THEN /\ Answer("toggle", id, <<index>>, "NotFoundError")
                /\ UNCHANGED db
                /\ run' = NoRun
           ELSE IF index < 0
           THEN /\ Answer("toggle", id, <<index>>, "OutOfRangeError")
                /\ UNCHANGED db
                /\ run' = NoRun
           ELSE IF db[id].subtasks = None
           THEN \* len(None): a TypeError, answered 500
                /\ Answer("toggle", id, <<index>>, "ServerError")
                /\ UNCHANGED db
                /\ run' = NoRun
           ELSE IF index >= Len(db[id].subtasks[1])
           THEN /\ Answer("toggle", id, <<index>>, "OutOfRangeError")
                /\ UNCHANGED db
                /\ run' = NoRun
           ELSE /\ db' = UpdateOne(id,
                            [subtasks |-> Some(ToggledSubtasks(db[id].subtasks[1], index)),
                             updated_at |-> clock])
                /\ Answer("toggle", id, <<index>>, "ok")
                /\ run' = RunAfterToggle(index, db[id])
        /\ UNCHANGED <<clock, issued, calls>>

\* POST /tasks/{task_id}/timer/start
TimerStart(indices) ==
    \E id \in TaskIds, subtaskIndex \in indices :
        /\ db' = IF id \in DOMAIN db
                 THEN UpdateOne(id, StartUpdates(db[id], subtaskIndex, clock))
                 ELSE db
        /\ Answer("start", id, <<subtaskIndex>>, Returned(db, id))
        /\ run' = NoRun
        /\ UNCHANGED <<clock, issued, calls>>

\* POST /tasks/{task_id}/timer/pause
TimerPause(seconds) ==
    \E id \in TaskIds, elapsedSeconds \in seconds :
        /\ db' = IF id \in DOMAIN db
                 THEN UpdateOne(id, PauseUpdates(db[id], elapsedSeconds, clock))
                 ELSE db
        /\ Answer("pause", id, <<elapsedSeconds>>, Returned(db, id))
        /\ run' = NoRun
        /\ UNCHANGED <<clock, issued, calls>>

\* POST /tasks/{task_id}/timer/stop
TimerStop ==
    \E id \in TaskIds :
        /\ db' = UpdateOne(id, StopUpdates(clock))
        /\ Answer("stop", id, <<>>, Returned(db, id))
        /\ run' = NoRun
        /\ UNCHANGED <<clock, issued, calls>>

\* POST /ai/edit
Edit(prompts) ==
    \E id \in TaskIds, prompt \in prompts :
        /\ IF id \notin DOMAIN db
           THEN /\ Answer("edit", id, <<prompt>>, "NotFoundError")
                /\ UNCHANGED db
                /\ run' = NoRun
           ELSE IF EditRaises(db[id], prompt)
           THEN /\ Answer("edit", id, <<prompt>>, "ServerError")
                /\ UNCHANGED db
                /\ run' = NoRun
           ELSE /\ Len(NewHistory(db[id])) <= MaxHistory
                /\ db' = UpdateOne(id, EditUpdates(db[id], prompt, clock))
                /\ Answer("edit", id, <<prompt>>, "ok")
                /\ run' = RunAfterEdit(db[id])
        /\ UNCHANGED <<clock, issued, calls>>

\* POST /ai/undo
Undo ==
    \E id \in TaskIds :
        /\ IF id \notin DOMAIN db
           THEN /\ Answer("undo", id, <<>>, "NotFoundError")
                /\ UNCHANGED db
                /\ run' = NoRun
           ELSE IF db[id].aiCursor < 0
           THEN /\ Answer("undo", id, <<>>, "ok")
                /\ UNCHANGED db
                /\ run' = RunAfterUndo
           ELSE IF ~PyIndexOk(db[id].aiHistory, db[id].aiCursor)
           THEN \* history[cursor]: an IndexError, answered 500
                /\ Answer("undo", id, <<>>, "ServerError")
                /\ UNCHANGED db
                /\ run' = NoRun
           ELSE /\ db' = UpdateOne(id, UndoUpdates(db[id], clock))
                /\ Answer("undo", id, <<>>, "ok")
                /\ run' = RunAfterUndo
        /\ UNCHANGED <<clock, issued, calls>>

\* POST /ai/redo
Redo ==
    \E id \in TaskIds :
        /\ IF id \notin DOMAIN db
           THEN /\ Answer("redo", id, <<>>, "NotFoundError")
                /\ UNCHANGED db
                /\ run' = NoRun
           ELSE IF db[id].aiCursor + 1 >= Len(db[id].aiHistory)
           THEN /\ Answer("redo", id, <<>>, "ok")
                /\ UNCHANGED db
                /\ run' = RunAfterRedo(db[id])
           ELSE IF ~PyIndexOk(db[id].aiHistory, db[id].aiCursor + 1)
           THEN \* history[cursor + 1]: an IndexError, answered 500
                /\ Answer("redo", id, <<>>, "ServerError")
                /\ UNCHANGED db
                /\ run' = NoRun
           ELSE /\ db' = UpdateOne(id, RedoUpdates(db[id], clock))
                /\ Answer("redo", id, <<>>, "ok")
                /\ run' = RunAfterRedo(db[id])
        /\ UNCHANGED <<clock, issued, calls>>

\* time passes between two requests
Tick ==
    /\ clock < MaxClock
    /\ clock' = clock + 1
    /\ UNCHANGED <<db, issued, last, run, calls>>

----------------------------------------------------------------------------
(* The handlers under concurrent requests: find_one is one step, the       *)
(* update_one computed from what it returned a later one, and other        *)
(* requests' steps may come in between                                     *)

\* a request that has read its task
Reading(op, id, arg) == [op |-> op, id |-> id, arg |-> arg, task |-> db[id]]

\* the answer to a request that had read its task
AnswerTo(call, result) ==
    last' = [op |-> call.op, id |-> call.id, arg |-> call.arg, result |-> result,
             pre |-> Some(call.task)]

\* two successful toggles of different indices that wrote one after the
\* other and had read the same subtask list: that list and the list the
\* first of them left
RunAfterWrittenToggle(index, task, stored) ==
    IF run.kind = "toggle" /\ run.idx # index /\ run.bases = <<task.subtasks>>
    THEN [kind |-> "race", idx |-> index, undos |-> 0,
          bases |-> <<task.subtasks, stored.subtasks>>]
    ELSE [kind |-> "toggle", idx |-> index, undos |-> 0, bases |-> <<task.subtasks>>]

\* a handler's find_one and its `if not task` test
Read(op, args) ==
    \E c \in Callers, id \in TaskIds, arg \in args :
        /\ calls[c] = Idle
        /\ IF id \notin DOMAIN db
           THEN /\ Answer(op, id, arg, "NotFoundError")
                /\ run' = NoRun
                /\ UNCHANGED calls
           ELSE /\ op = "edit" => Len(NewHistory(db[id])) <= MaxHistory
                /\ calls' = [calls EXCEPT ![c] = Reading(op, id, arg)]
                /\ UNCHANGED <<last, run>>
        /\ UNCHANGED <<db, clock, issued>>

\* POST /tasks/{task_id}/subtasks/{index}/toggle, find_one
ReadToggle(indices) == Read("toggle", {<<index>> : index \in indices})

\* POST /ai/edit, find_one
ReadEdit(prompts) == Read("edit", {<<prompt>> : prompt \in prompts})

\* POST /ai/undo, find_one
ReadUndo == Read("undo", {<<>>})

\* POST /ai/redo, find_one
ReadRedo == Read("redo", {<<>>})

\* POST /tasks/{task_id}/subtasks/{index}/toggle, from the index test on
WriteToggle ==
    \E c \in Callers :
        /\ calls[c].op = "toggle"
        /\ LET call  == calls[c]
               task  == call.task
               index == call.arg[1]
           IN  IF index < 0
               THEN AnswerTo(call, "OutOfRangeError") /\ run' = NoRun /\ UNCHANGED db
               ELSE IF task.subtasks = None
               THEN AnswerTo(call, "ServerError") /\ run' = NoRun /\ UNCHANGED db
               ELSE IF index >= Len(task.subtasks[1])
               THEN AnswerTo(call, "OutOfRangeError") /\ run' = NoRun /\ UNCHANGED db
               ELSE /\ db' = UpdateOne(call.id,
                                [subtasks |-> Some(ToggledSubtasks(task.subtasks[1], index)),
                                 updated_at |-> clock])
                    /\ AnswerTo(call, Returned(db, call.id))
                    /\ run' = IF call.id \in DOMAIN db
                              THEN RunAfterWrittenToggle(index, task, db[call.id])
                              ELSE NoRun
        /\ calls' = [calls EXCEPT ![c] = Idle]
        /\ UNCHANGED <<clock, issued>>

\* POST /ai/edit, from the snapshot on
WriteEdit ==
    \E c \in Callers :
        /\ calls[c].op = "edit"
        /\ LET call == calls[c]
           IN  IF EditRaises(call.task, call.arg[1])
               THEN AnswerTo(call, "ServerError") /\ UNCHANGED db
               ELSE /\ db' = UpdateOne(call.id, EditUpdates(call.task, call.arg[1], clock))
                    /\ AnswerTo(call, Returned(db, call.id))
        /\ run' = NoRun
        /\ calls' = [calls EXCEPT ![c] = Idle]
        /\ UNCHANGED <<clock, issued>>

\* POST /ai/undo, from the cursor test on
WriteUndo ==
    \E c \in Callers :
        /\ calls[c].op = "undo"
        /\ LET call == calls[c]
               task == call.task
           IN  IF task.aiCursor < 0
               THEN AnswerTo(call, "ok") /\ UNCHANGED db
               ELSE IF ~PyIndexOk(task.aiHistory, task.aiCursor)
               THEN AnswerTo(call, "ServerError") /\ UNCHANGED db
               ELSE /\ db' = UpdateOne(call.id, UndoUpdates(task, clock))
                    /\ AnswerTo(call, Returned(db, call.id))
        /\ run' = NoRun
        /\ calls' = [calls EXCEPT ![c] = Idle]
        /\ UNCHANGED <<clock, issued>>

\* POST /ai/redo, from the cursor test on
WriteRedo ==
    \E c \in Callers :
        /\ calls[c].op = "redo"
        /\ LET call == calls[c]
               task == call.task
           IN  IF task.aiCursor + 1 >= Len(task.aiHistory)
               THEN AnswerTo(call, "ok") /\ UNCHANGED db
               ELSE IF ~PyIndexOk(task.aiHistory, task.aiCursor + 1)
               THEN AnswerTo(call, "ServerError") /\ UNCHANGED db
               ELSE /\ db' = UpdateOne(call.id, RedoUpdates(task, clock))
                    /\ AnswerTo(call, Returned(db, call.id))
        /\ run' = NoRun
        /\ calls' = [calls EXCEPT ![c] = Idle]
        /\ UNCHANGED <<clock, issued>>

----------------------------------------------------------------------------
(* The requests the model sends *)

RECURSIVE Repeat(_, _)
Repeat(s, n) == IF n = 0 THEN "" ELSE s \o Repeat(s, n - 1)

\* longer than DescriptionLimit
LongDescription == Repeat("Collect last quarter's numbers. ", 4)

Subtasks3 ==
    <<[title |-> "Draft", estimatedMinutes |-> 20],
      [title |-> "Outline", estimatedMinutes |-> 5, completed |-> TRUE],
      [title |-> "Sources"]>>

ReportBody ==
    [userId |-> Some("u1"), title |-> Some("Write report"),
     description |-> Some(LongDescription), subtasks |-> Some(Subtasks3)]

NoteBody ==
    [userId |-> Some("u1"), title |-> Some("Note"),
     subtasks |-> Some(<<[title |-> "Only"]>>)]

InvalidCreateBodies ==
    {[ReportBody EXCEPT !.subtasks =
         Some(<<[title |-> "Draft", estimatedMinutes |-> SubtaskMinutesMax + 1]>>)],
     [userId |-> Some("u1"), title |-> Some("Plan"), estimatedMinutes |-> Some(0)],
     [userId |-> Some("u1"), title |-> Some("Plan"),
      estimatedMinutes |-> Some(TaskMinutesMax + 1)],
     [userId |-> Some("u1"), title |-> Some("Plan"), estimatedMinutes |-> None]}

InvalidPatchBodies ==
    {[estimatedMinutes |-> Some(0)],
     [estimatedMinutes |-> Some(TaskMinutesMax + 1)],
     [subtasks |-> Some(<<[title |-> "Solo", estimatedMinutes |-> 0]>>)],
     [subtasks |-> Some(<<[title |-> "Solo", estimatedMinutes |-> SubtaskMinutesMax + 1]>>)]}

NullPatchBodies ==
    {[estimatedMinutes |-> None], [subtasks |-> None], [description |-> None]}

\* bodies that set no field TaskUpdate declares
UnrecognizedPatchBodies == {EmptyObject, [aiCursor |-> Some(7)]}

----------------------------------------------------------------------------
(* Spec: every handler on a small task, requests served one after another *)

Init ==
    /\ db = [k \in {} |-> None]
    /\ clock = 0
    /\ issued = {}
    /\ last = NoCall
    /\ run = NoRun
    /\ calls = NoCalls

Next ==
    \/ Create({NoteBody})
    \/ Patch({[aiCursor |-> Some(7)], [voiceReminder |-> Some(TRUE)]})
    \/ Delete
    \/ Complete
    \/ Toggle({0})
    \/ TimerStart({Some(1)})
    \/ TimerPause({42})
    \/ TimerStop
    \/ Edit({"polish"})
    \/ Undo
    \/ Redo

Spec == Init /\ [][Next]_vars

----------------------------------------------------------------------------
(* SpecHistory: the edit / undo / redo engine on a task with a long        *)
(* description and three subtasks, a patch in between, the clock running   *)

NextHistory ==
    \/ Create({ReportBody})
    \/ Patch({[title |-> Some("Report v2")], [description |-> None]})
    \/ Edit({"Make it SIMPLER", "please prioritize, with Emoji", "polish"})
    \/ Undo
    \/ Redo
    \/ Tick

SpecHistory == Init /\ [][NextHistory]_vars

----------------------------------------------------------------------------
(* SpecMutation: create, patch, toggle and delete with valid, null,        *)
(* partial and invalid request bodies, the clock running                   *)

NextMutation ==
    \/ Create({ReportBody} \cup InvalidCreateBodies)
    \/ Patch(UnrecognizedPatchBodies \cup NullPatchBodies \cup InvalidPatchBodies
             \cup {[subtasks |-> Some(<<[title |-> "Solo"]>>)]})
    \/ Delete
    \/ Toggle(-1 .. 3)
    \/ Tick

SpecMutation == Init /\ [][NextMutation]_vars

----------------------------------------------------------------------------
(* SpecTimer: the timer calls with every kind of argument (no index, an    *)
(* index of a subtask, an index of none, zero and negative seconds), the   *)
(* clock running                                                           *)

NextTimer ==
    \/ Create({NoteBody})
    \/ TimerStart({None, Some(0), Some(1), Some(7)})
    \/ TimerPause({0, 42, -5})
    \/ TimerStop
    \/ Tick

SpecTimer == Init /\ [][NextTimer]_vars

----------------------------------------------------------------------------
(* SpecPatch: patches with recognized, unrecognized, null and invalid      *)
(* bodies on a task whose timer and edit history have moved, the clock     *)
(* running                                                                 *)

NextPatch ==
    \/ Create({ReportBody})
    \/ Patch({[aiCursor |-> Some(7)], [description |-> None],
              [estimatedMinutes |-> Some(0)],
              [title |-> Some("Report v2"), completed |-> Some(TRUE)]})
    \/ TimerPause({42})
    \/ Edit({"add an emoji"})
    \/ Undo
    \/ Tick

SpecPatch == Init /\ [][NextPatch]_vars

----------------------------------------------------------------------------
(* SpecEdit: every prompt on a task with a long description and three      *)
(* subtasks or on a task with an empty description, and on subtasks that   *)
(* a patch stored partly without estimatedMinutes                          *)

MixedSubtasks ==
    <<[title |-> "Late", estimatedMinutes |-> 9],
      [title |-> "Solo"],
      [title |-> "Quick", estimatedMinutes |-> SubtaskMinutesDefault, completed |-> TRUE]>>

NextEdit ==
    \/ Create({ReportBody, NoteBody})
    \/ Patch({[subtasks |-> Some(MixedSubtasks)]})
    \/ Edit(AllPrompts)

SpecEdit == Init /\ [][NextEdit]_vars

----------------------------------------------------------------------------
(* SpecConcurrent: edit, undo and redo requests on one task served at the  *)
(* same time, each a read and a later write                                *)

NextConcurrent ==
    \/ Create({NoteBody})
    \/ ReadEdit({"add an emoji"})
    \/ WriteEdit
    \/ ReadUndo
    \/ WriteUndo
    \/ ReadRedo
    \/ WriteRedo

SpecConcurrent == Init /\ [][NextConcurrent]_vars

----------------------------------------------------------------------------
(* SpecRace: toggle requests on one task served at the same time           *)

NextRace ==
    \/ Create({ReportBody})
    \/ ReadToggle(-1 .. 3)
    \/ WriteToggle
    \/ Tick

SpecRace == Init /\ [][NextRace]_vars

----------------------------------------------------------------------------
(* The claims *)

\* the document the last call found, and the one stored now under its id
Before == last.pre[1]

Now == db[last.id]

Succeeded(op) == last.op = op /\ last.result = "ok" /\ last.pre # None

\* C1: in every state reachable by Create, Patch, SetCompleted, ToggleSubtask,
\* timer Start / Pause / Stop, Edit, Undo and Redo calls served one after
\* another, every stored task has -1 <= aiCursor <= len(aiHistory) - 1.
C1_CursorInRange ==
    \A id \in DOMAIN db :
        db[id].aiCursor >= -1 /\ db[id].aiCursor <= Len(db[id].aiHistory) - 1

\* an undo that left the cursor inside a history of two entries, the timer
\* paused and the task completed
C1_Witness ==
    /\ Succeeded("undo")
    /\ Len(Now.aiHistory) = 2 /\ Now.aiCursor = 0
    /\ Now.timerSession.status = "paused"
    /\ Now.completed = Some(TRUE)

C5_Undo ==
    Succeeded("undo") =>
        IF Before.aiCursor < 0
        THEN Now = Before
        ELSE /\ Fields(Now) = Before.aiHistory[Before.aiCursor + 1]
             /\ Now.aiCursor = Before.aiCursor - 1
             /\ Now.aiHistory = Before.aiHistory

\* an undo from a cursor of 1 that changed the fields, after the clock moved
C5_Witness ==
    /\ Succeeded("undo")
    /\ Before.aiCursor = 1
    /\ Fields(Now) # Fields(Before)
    /\ Now.updated_at # Before.updated_at

\* C6: Redo with aiCursor + 1 >= len(aiHistory) leaves the stored task
\* unchanged; otherwise aiCursor increases by one, the editable fields become
\* aiHistory at the new cursor and aiHistory is unchanged.
C6_Redo ==
    Succeeded("redo") =>
        IF Before.aiCursor + 1 >= Len(Before.aiHistory)
        THEN Now = Before
        ELSE /\ Now.aiCursor = Before.aiCursor + 1
             /\ Fields(Now) = Now.aiHistory[Now.aiCursor + 1]
             /\ Now.aiHistory = Before.aiHistory

\* a redo from inside the history that changed the fields
C6_Witness ==
    /\ Succeeded("redo")
    /\ Before.aiCursor + 1 < Len(Before.aiHistory)
    /\ Before.aiCursor >= 0
    /\ Fields(Now) # Fields(Before)

\* a request body carries a value outside the ranges of section 3
Violating(body) ==
    \/ /\ "estimatedMinutes" \in DOMAIN body
       /\ body.estimatedMinutes # None
       /\ body.estimatedMinutes[1] \notin 1 .. TaskMinutesMax
    \/ /\ "subtasks" \in DOMAIN body
       /\ body.subtasks # None
       /\ \E i \in 1 .. Len(body.subtasks[1]) :
              /\ "estimatedMinutes" \in DOMAIN body.subtasks[1][i]
              /\ body.subtasks[1][i].estimatedMinutes \notin 1 .. SubtaskMinutesMax

\* C7: every stored task has an integer estimatedMinutes in [1, 1440] and
\* every stored subtask an integer estimatedMinutes in [1, 480], also after
\* a Patch that supplies fields as null; a request carrying a violating
\* value is rejected with ValidationError and changes nothing.
C7_FieldConstraints ==
    /\ \A id \in DOMAIN db :
           /\ db[id].estimatedMinutes # None
           /\ db[id].estimatedMinutes[1] \in 1 .. TaskMinutesMax
           /\ db[id].subtasks # None =>
                  \A i \in 1 .. Len(db[id].subtasks[1]) :
                      /\ "estimatedMinutes" \in DOMAIN db[id].subtasks[1][i]
                      /\ db[id].subtasks[1][i].estimatedMinutes \in 1 .. SubtaskMinutesMax
    /\ last.op \in {"create", "patch"} /\ Violating(last.arg[1]) =>
           /\ last.result = "ValidationError"
           /\ last.op = "patch" => FindOne(last.id) = last.pre

\* C8: Patch, SetCompleted, ToggleSubtask, timer Start / Pause / Stop, Edit,
\* Undo and Redo on a taskId that resolves to no stored task fail with
\* NotFoundError and leave the store unchanged.
C8_NotFound ==
    /\ last.op \in {"patch", "complete", "toggle", "start", "pause", "stop",
                    "edit", "undo", "redo"}
    /\ last.pre = None
    => /\ last.result = "NotFoundError"
       /\ last.id \notin DOMAIN db

CompletedOf(s) == IF "completed" \in DOMAIN s THEN s.completed ELSE FALSE

\* C9: one ToggleSubtask(i) negates subtasks[i].completed and changes no
\* other field of it, no other subtask and not the length or order; two
\* consecutive ToggleSubtask(i) calls leave the subtask sequence equal to
\* what it was before the first of them.
C9_ToggleInvolution ==
    /\ Succeeded("toggle") =>
           LET i == last.arg[1] + 1
               b == Before.subtasks[1]
               n == Now.subtasks[1]
           IN  /\ Len(n) = Len(b)
               /\ \A j \in 1 .. Len(b) : j # i => n[j] = b[j]
               /\ CompletedOf(n[i]) = ~CompletedOf(b[i])
               /\ \A k \in (DOMAIN b[i] \cup DOMAIN n[i]) \ {"completed"} :
                      k \in DOMAIN b[i] /\ k \in DOMAIN n[i] /\ n[i][k] = b[i][k]
    /\ Succeeded("toggle") /\ run.kind = "toggle" /\ Len(run.bases) = 2 =>
           Now.subtasks = run.bases[1]

\* the index is a position of the task's subtask sequence
ValidIndex(task, index) ==
    /\ task.subtasks # None
    /\ index >= 0
    /\ index < Len(task.subtasks[1])

\* C10: ToggleSubtask on an existing task fails with OutOfRangeError exactly
\* when the index is not in 0 <= index < len(subtasks), and then the stored
\* task is unchanged, updated_at included.
C10_OutOfRange ==
    last.op = "toggle" /\ last.pre # None =>
        /\ last.result = "OutOfRangeError" <=> ~ValidIndex(Before, last.arg[1])
        /\ last.result = "OutOfRangeError" => Now = Before


\* C11: after a Stop on an existing task the timer session is the reset
\* state {idle, no startedAt, 0 seconds, no subtask index}, the one a freshly
\* created task has, whatever Start and Pause calls came before.
C11_StopResets ==
    Succeeded("stop") =>
        /\ Now.timerSession = ResetTimer
        /\ Now.timerSession = NewTask(NoteBody, clock).timerSession
        /\ Now.timerSession.status = "idle"
        /\ Now.timerSession.startedAt = None
        /\ Now.timerSession.elapsedSeconds = 0
        /\ Now.timerSession.currentSubtaskIndex = None

\* a stop that found a paused timer with a start time, seconds and an index
C11_Witness ==
    /\ Succeeded("stop")
    /\ Before.timerSession.status = "paused"
    /\ Before.timerSession.startedAt # None
    /\ Before.timerSession.elapsedSeconds = 42
    /\ Before.timerSession.currentSubtaskIndex = Some(1)

TimerStatuses == {"idle", "running", "paused"}

\* C12: on an existing task Start, Pause and Stop succeed from every status;
\* Start yields status running with currentSubtaskIndex the supplied value
\* (none when none is supplied), Pause yields status paused with
\* elapsedSeconds the supplied value; the status is always idle, running or
\* paused.
C12_NoGuards ==
    /\ \A id \in DOMAIN db : db[id].timerSession.status \in TimerStatuses
    /\ last.op \in {"start", "pause", "stop"} /\ last.pre # None =>
           /\ Before.timerSession.status \in TimerStatuses
           /\ last.result = "ok"
    /\ Succeeded("start") =>
           /\ Now.timerSession.status = "running"
           /\ Now.timerSession.currentSubtaskIndex = last.arg[1]
    /\ Succeeded("pause") =>
           /\ Now.timerSession.status = "paused"
           /\ Now.timerSession.elapsedSeconds = last.arg[1]

\* a pause of a timer that was already paused, with fewer seconds than stored
C12_Witness ==
    /\ Succeeded("pause")
    /\ Before.timerSession.status = "paused"
    /\ Before.timerSession.elapsedSeconds = 42
    /\ last.arg[1] = -5
    /\ Now.timerSession.elapsedSeconds = -5

\* C13: a Patch changes exactly the fields of TaskUpdate the caller supplied
\* (each to the supplied value) and updated_at, and leaves every other field,
\* timerSession, aiHistory and aiCursor among them, as it was; a Patch that
\* supplies no such field succeeds and leaves the stored task as it was,
\* updated_at included; a rejected Patch writes nothing.
C13_PatchFrame ==
    /\ Succeeded("patch") =>
           LET body  == last.arg[1]
               given == (DOMAIN body) \cap TaskUpdateKeys
           IN  IF given = {}
               THEN Now = Before
               ELSE /\ DOMAIN Now = DOMAIN Before
                    /\ \A k \in given : Now[k] = body[k]
                    /\ \A k \in DOMAIN Before \ (given \cup {"updated_at"}) :
                           Now[k] = Before[k]
    /\ last.op = "patch" /\ last.pre # None =>
           last.result \in {"ok", "ValidationError"}
    /\ last.op = "patch" /\ last.result = "ValidationError" =>
           FindOne(last.id) = last.pre

\* a Patch whose only key is none of TaskUpdate's, on a task with a paused
\* timer and an edit in its history, at a time later than its updated_at
C13_Witness ==
    /\ Succeeded("patch")
    /\ last.arg[1] = [aiCursor |-> Some(7)]
    /\ Now.aiCursor = 0
    /\ Now.timerSession.status = "paused"
    /\ Now.updated_at < clock

\* C14: after a valid Create the stored task has completed = false, the timer
\* session in the reset state, an empty aiHistory and aiCursor = -1, and every
\* field the caller supplied is stored as given, the completed flags of the
\* supplied subtasks included.
C14_CreateDefaults ==
    last.op = "create" /\ last.result = "ok" =>
        LET body == last.arg[1]
        IN  /\ Now.completed = Some(FALSE)
            /\ Now.timerSession = ResetTimer
            /\ Now.aiHistory = <<>>
            /\ Now.aiCursor = -1
            /\ Now.userId = body.userId[1]
            /\ \A k \in ((DOMAIN body) \cap TaskCreateKeys) \ {"userId", "subtasks"} :
                   Now[k] = body[k]
            /\ "subtasks" \in DOMAIN body =>
                   /\ Len(Now.subtasks[1]) = Len(body.subtasks[1])
                   /\ \A i \in 1 .. Len(body.subtasks[1]) :
                          \A f \in DOMAIN body.subtasks[1][i] :
                              Now.subtasks[1][i][f] = body.subtasks[1][i][f]

\* a create whose second subtask came marked completed
C14_Witness ==
    /\ last.op = "create" /\ last.result = "ok"
    /\ last.arg[1].subtasks[1][2].completed = TRUE
    /\ Now.subtasks[1][2].completed = TRUE
    /\ Now.completed = Some(FALSE)

\* C15: every Edit call on an existing task, whatever the prompt and the
\* task's content, changes at least one of the editable fields and pushes a
\* history entry.
C15_EditChangesSomething ==
    last.op = "edit" /\ last.pre # None =>
        /\ last.result = "ok"
        /\ Fields(Now) # Fields(Before)
        /\ Len(Now.aiHistory) = Before.aiCursor + 2
        /\ Now.aiHistory[Len(Now.aiHistory)] = Fields(Before)

\* the subtask sequence n is b reordered: p is a one-to-one map of positions
\* that keeps the order of subtasks with equal minutes
StableReordering(b, n, p) ==
    /\ \A i, j \in 1 .. Len(b) : i # j => p[i] # p[j]
    /\ \A i \in 1 .. Len(b) : n[i] = b[p[i]]
    /\ \A i, j \in 1 .. Len(b) :
           i < j /\ SortKey(n[i]) = SortKey(n[j]) => p[i] < p[j]

EndsWith(s, t) ==
    Len(s) >= Len(t) /\ SubSeq(s, Len(s) - Len(t) + 1, Len(s)) = t

\* C17: when a prompt matches several rules each of them shows in the stored
\* result: 'prioritize' with 'emoji' orders the subtasks and sets the emoji;
\* 'simpler' / 'shorter' with 'more details' / 'expand' stores a description
\* that begins with the first 120 characters of the old one followed by
\* '...' (the whole old one if it was no longer) and ends with the
\* clarifying suffix.
C17_RulesCombine ==
    Succeeded("edit") =>
        LET prompt == Lower(last.arg[1])
            d == Before.description[1]
            n == Now.subtasks[1]
        IN  /\ Contains("prioritize", prompt) /\ Contains("emoji", prompt) =>
                   /\ Now.emoji = Some(Sparkles)
                   /\ \A i, j \in 1 .. Len(n) :
                          i < j => SortKey(n[i]) <= SortKey(n[j])
            /\ /\ Contains("simpler", prompt) \/ Contains("shorter", prompt)
               /\ Contains("more details", prompt) \/ Contains("expand", prompt)
               => /\ StrPrefix(Now.description[1], Len(Shortened(d))) = Shortened(d)
                  /\ EndsWith(Now.description[1], Strip(MoreSpecifics))

\* C18: with Edit, Undo and Redo requests on one task served at the same
\* time (each a read and a later write computed from it), every stored task
\* has -1 <= aiCursor <= len(aiHistory) - 1 and no Undo or Redo indexes
\* aiHistory out of bounds.
C18_ConcurrentCursorInRange ==
    /\ \A id \in DOMAIN db :
           db[id].aiCursor >= -1 /\ db[id].aiCursor <= Len(db[id].aiHistory) - 1
    /\ last.op \in {"undo", "redo"} => last.result # "ServerError"

\* the positions at which two subtask lists differ in the completed flag
Flipped(x, y) == {k \in 1 .. Len(x) : CompletedOf(x[k]) # CompletedOf(y[k])}

\* C19: two ToggleSubtask requests on different valid indices of one task
\* that both read the subtask list before either wrote it both succeed, and
\* after the second write only the second request's subtask differs from
\* the list they read: the first request's flip is lost (run.bases holds the
\* list both read and the list the first write left).
C19_LostUpdate ==
    run.kind = "race" =>
        LET read  == run.bases[1][1]
            first == run.bases[2][1]
            now   == Now.subtasks[1]
        IN  /\ last.op = "toggle" /\ last.result = "ok"
            /\ Cardinality(Flipped(first, read)) = 1
            /\ Flipped(now, read) = {run.idx + 1}
            /\ Flipped(first, read) # Flipped(now, read)
            /\ \A k \in Flipped(first, read) : now[k] = read[k]

\* both requests have answered 200 and of the subtasks 0 and 1 they toggled
\* only subtask 1 is changed
C19_Witness ==
    /\ run.kind = "race" /\ run.idx = 1
    /\ last.result = "ok"
    /\ Flipped(run.bases[2][1], run.bases[1][1]) = {1}
    /\ Flipped(Now.subtasks[1], run.bases[1][1]) = {2}
    /\ calls = NoCalls

\* C20: Edit, Undo and Redo leave userId, created_at, completed,
\* voiceReminder and timerSession as they were; SetCompleted, ToggleSubtask
\* and timer Start / Pause / Stop leave aiHistory and aiCursor as they were;
\* SetCompleted leaves the subtasks as they were; Start leaves
\* elapsedSeconds, Pause leaves startedAt and currentSubtaskIndex; no call
\* on a stored task changes its userId or created_at.
C20_Frames ==
    last.pre # None /\ last.id \in DOMAIN db =>
        /\ Now.userId = Before.userId
        /\ Now.created_at = Before.created_at
        /\ last.op \in {"edit", "undo", "redo"} =>
               /\ Now.completed = Before.completed
               /\ Now.voiceReminder = Before.voiceReminder
               /\ Now.timerSession = Before.timerSession
        /\ last.op \in {"complete", "toggle", "start", "pause", "stop"} =>
               /\ Now.aiHistory = Before.aiHistory
               /\ Now.aiCursor = Before.aiCursor
        /\ last.op = "complete" => Now.subtasks = Before.subtasks
        /\ last.op = "start" =>
               Now.timerSession.elapsedSeconds = Before.timerSession.elapsedSeconds
        /\ last.op = "pause" =>
               /\ Now.timerSession.startedAt = Before.timerSession.startedAt
               /\ Now.timerSession.currentSubtaskIndex =
                      Before.timerSession.currentSubtaskIndex

\* a Start on a completed task with seconds on its timer and two history
\* entries, one of them beyond the cursor
C20_Witness ==
    /\ Succeeded("start")
    /\ Before.timerSession.elapsedSeconds = 42
    /\ Before.timerSession.status = "paused"
    /\ Now.completed = Some(TRUE)
    /\ Len(Now.aiHistory) = 2 /\ Now.aiCursor = 0

====
